---------------------------- MODULE Spec2Model ----------------------------
(***************************************************************************)
(* A model of case-sensitive-paths-webpack-plugin (src/index.js).          *)
(*                                                                         *)
(* The plugin keeps a per-build-pass cache of directory listings           *)
(* (pathCache), one async-mutex per directory (visitedPathMutexRecord) and *)
(* a counter of real directory reads (fsOperations).  fileExistsWithCase   *)
(* walks a resolved path from the leaf towards the root and compares each  *)
(* segment with the listing of its directory.                              *)
(*                                                                         *)
(* JavaScript runs every callback to completion, so one action of the      *)
(* model is one run of a callback: the hook call itself, the body that     *)
(* runExclusive starts once the mutex is acquired, the callback of         *)
(* fs.readdir, and the done hook.  Everything a callback calls           *)
(* synchronously (cache hits, the recursion of fileExistsWithCase, the     *)
(* completion callback of checkFile) is part of the same action.           *)
(*                                                                         *)
(* Two specifications: Spec, in which the host fires the done hook only    *)
(* when no verification of the pass is outstanding (a compilation ends     *)
(* after every after-resolve callback was called), and SpecAnyDone, in     *)
(* which the done hook may fire at any moment.                             *)
(***************************************************************************)
EXTENDS Naturals, Sequences, FiniteSets, TLC

(***************************************************************************)
(* Bounds of the model.                                                    *)
(***************************************************************************)
\* verifications that may be outstanding at the same time
MaxInFlight == 2
\* build passes that may complete (resets)
MaxPass == 1

(***************************************************************************)
(* Strings.  File names are atoms; the two string conversions the code     *)
(* applies to them are given by what they do to each atom.                 *)
(***************************************************************************)

\* String.prototype.toLowerCase
toLowerCase(n) ==
    CASE n = "B" -> "b"
      [] n = "C" -> "c"
      [] n = "D" -> "d"
      [] n = "Kk" -> "kk"
      [] n = "kK" -> "kk"
      [] OTHER -> n

\* String.prototype.normalize('NFC'): "e_nfd" stands for e + combining acute,
\* "e_nfc" for the precomposed letter
normalizeNFC(n) ==
    CASE n = "e_nfd" -> "e_nfc"
      [] OTHER -> n

(***************************************************************************)
(* Paths.  A path is its list of segments and whether it is absolute:      *)
(* "/a/B" is [abs |-> TRUE, segs |-> <<"a", "B">>], "/" has no segments,   *)
(* and the relative path with no segments is ".".                          *)
(***************************************************************************)
Path(abs, segs) == [abs |-> abs, segs |-> segs]

Front(s) == SubSeq(s, 1, Len(s) - 1)

\* path.dirname: dirname('/a') = '/', dirname('/') = '/', dirname('a') = '.'
dirname(p) ==
    IF p.segs = << >> THEN p ELSE Path(p.abs, Front(p.segs))

\* path.basename: the last segment ('' for the root)
basename(p) ==
    IF p.segs = << >> THEN "" ELSE p.segs[Len(p.segs)]

\* path.parse(p), the two fields the code reads: root is '/' or '', and dir
\* is the root itself for a path of at most one segment
parse(p) ==
    [root |-> Path(p.abs, << >>),
     dir  |-> IF Len(p.segs) <= 1 THEN Path(p.abs, << >>) ELSE dirname(p)]

\* the string '.'
Dot == Path(FALSE, << >>)

\* f.normalize('NFC') applied to every segment of a path
normalizePath(p) ==
    Path(p.abs, [i \in 1..Len(p.segs) |-> normalizeNFC(p.segs[i])])

(***************************************************************************)
(* The filesystem behind compiler.inputFileSystem.  The tree is fixed; a   *)
(* disk is the tree together with whether lookups ignore case and which    *)
(* directories cannot be read.                                             *)
(***************************************************************************)
\* real directories (absolute segment lists) and the names readdir reports
Tree ==
    (<< >> :> <<"a">>)
    @@ (<<"a">> :> <<"B">>)
    @@ (<<"a", "B">> :> <<"c", "Kk", "kK">>)
    @@ (<<"a", "B", "c">> :> <<"d", "e_nfd">>)

\* process.cwd(), against which a relative directory is resolved
Cwd == <<"a", "B">>

Disk(ci, unreadable) == [ci |-> ci, unreadable |-> unreadable]

\* the key under which the filesystem looks a name up
FsKey(d, n) == IF d.ci THEN toLowerCase(normalizeNFC(n)) ELSE n

FsKeys(d, s) == [i \in 1..Len(s) |-> FsKey(d, s[i])]

\* fs.readdir(dir, cb): the (err, files) its callback receives
readdir(d, dir) ==
    LET segs == IF dir.abs THEN dir.segs ELSE Cwd \o dir.segs
        real == {r \in DOMAIN Tree : FsKeys(d, r) = FsKeys(d, segs)}
    IN  IF real = {} \/ (real \cap d.unreadable) # {}
        THEN [err |-> TRUE, files |-> << >>]
        ELSE [err |-> FALSE, files |-> Tree[CHOOSE r \in real : TRUE]]


(***************************************************************************)
(* Values passed to callbacks.  A JavaScript string is the list of the     *)
(* pieces it is concatenated from.                                         *)
(***************************************************************************)
\* callback() with no argument
Undefined == [defined |-> FALSE, text |-> << >>]

Str(t) == [defined |-> TRUE, text |-> t]

\* the fallback value '!nonexistent'
NonexistentName == Str(<<"!nonexistent">>)

\* the template literal that puts the name between backquotes and adds "."
QuotedName(n) == Str(<<"bq", n, "bq.">>)

\* JavaScript truthiness of a callback value: undefined and '' are falsy
Truthy(v) == v.defined /\ v.text # << >>

(***************************************************************************)
(* fileExistsWithCase, the part that runs synchronously.                   *)
(*                                                                         *)
(* The result says whether the walk called back (settled, with           *)
(* realName) or stopped   in getFilenamesInDir on a directory that is not  *)
(* cached (at is the path whose directory is awaited), and lists the       *)
(* directories getFilenamesInDir was called with, in call order (asked).   *)
(***************************************************************************)

\* mutant: indexOf(filename) > 0, which misses a match at index 0
hasExactAfterFirst(filenames, filename) ==
    \E i \in 2..Len(filenames) : filenames[i] = filename

\* filenames.indexOf(filename) !== -1
hasExact(filenames, filename) ==
    \E i \in 1..Len(filenames) : filenames[i] = filename

\* mutant: the loop has no break, so the last match wins
correctFilenameLast(filenames, filename) ==
    LET I == {i \in 1..Len(filenames) :
                 toLowerCase(filenames[i]) = toLowerCase(filename)}
    IN  IF I = {} THEN NonexistentName
        ELSE QuotedName(filenames[CHOOSE i \in I : \A j \in I : i >= j])

\* the loop that looks for the correct filename: the first i with
\* filenames[i].toLowerCase() === filename.toLowerCase()
correctFilename(filenames, filename) ==
    LET I == {i \in 1..Len(filenames) :
                 toLowerCase(filenames[i]) = toLowerCase(filename)}
    IN  IF I = {} THEN NonexistentName
        ELSE QuotedName(filenames[CHOOSE i \in I : \A j \in I : i <= j])

\* mutant: only '.' ends the walk
atRootOnlyDot(dir) == dir = Dot

\* the root test of fileExistsWithCase
atRoot(dir) ==
    LET parsedPath == parse(dir)
    IN  parsedPath.dir = parsedPath.root \/ dir = Dot

\* this.pathCache.has(dir), the test getFilenamesInDir makes when called
hasEntry(cache, dir) == dir \in DOMAIN cache

\* mutant: the test under the Mutex is forgotten
hasEntryLockedForgotten(cache, dir) == FALSE

\* that.pathCache.has(dir), the test made again once the Mutex is held
hasEntryLocked(cache, dir) == dir \in DOMAIN cache

\* mutant: a cache hit passes an empty list instead of the entry
cacheGetEmpty(cache, dir) == << >>

\* pathCache.get(dir), the list a cache hit passes to the callback
cacheGet(cache, dir) == cache[dir]

RECURSIVE fileExistsWithCase(_, _)
RECURSIVE onFilenames(_, _, _)

\* mutant: the walk goes on to the parent whatever the list holds
onFilenamesWalkingOn(filepath, filenames, cache) ==
    fileExistsWithCase(dirname(filepath), cache)

\* the callback fileExistsWithCase gives to getFilenamesInDir
onFilenames(filepath, filenames, cache) ==
    IF ~hasExact(filenames, basename(filepath))
    THEN [settled |-> TRUE,
          realName |-> correctFilename(filenames, basename(filepath)),
          at |-> filepath, asked |-> << >>]
    ELSE fileExistsWithCase(dirname(filepath), cache)

fileExistsWithCase(filepath, cache) ==
    LET dir == dirname(filepath)
    IN  IF atRoot(dir)
        THEN [settled |-> TRUE, realName |-> Undefined,
              at |-> filepath, asked |-> << >>]
        ELSE IF hasEntry(cache, dir)
        THEN LET rest == onFilenames(filepath, cacheGet(cache, dir), cache)
             IN  [rest EXCEPT !.asked = <<dir>> \o @]
        ELSE [settled |-> FALSE, realName |-> Undefined,
              at |-> filepath, asked |-> <<dir>>]

(***************************************************************************)
(* The hook glue of apply().                                               *)
(***************************************************************************)
\* a resource string: a path, possibly followed by "?query"; a segment
\* "NUL#x" stands for the escaped "\0#x"
Resource(path, query) == [path |-> path, query |-> query]

\* String.prototype.replace('\u0000#', '#') on one segment
unescapeHash(n) == IF n = "NUL#x" THEN "#x" ELSE n

\* cleanupPath: split('?')[0], then the first "\0#" replaced by "#"
cleanupPath(resource) ==
    LET segs == resource.path.segs
        E == {i \in 1..Len(segs) : unescapeHash(segs[i]) # segs[i]}
        first == IF E = {} THEN 0 ELSE CHOOSE i \in E : \A j \in E : i <= j
    IN  Path(resource.path.abs,
             [i \in 1..Len(segs) |->
                 IF i = first THEN unescapeHash(segs[i]) ELSE segs[i]])

\* the arguments of done(...)
Null == [type |-> "null"]

ErrorOf(pathName, realName) ==
    [type |-> "Error", pathName |-> pathName, onDisk |-> realName.text]

\* mutant: every name fileExistsWithCase reports is an error, also
\* '!nonexistent'
checkFileAnyNameFails(pathName, data, realName) ==
    IF Truthy(realName)
    THEN <<ErrorOf(pathName, realName)>>
    ELSE IF data.createData THEN <<Null>> ELSE <<Null, data>>

\* checkFile's callback: what it calls done with once fileExistsWithCase
\* called back with realName
checkFile(pathName, data, realName) ==
    IF Truthy(realName)
    THEN IF realName = NonexistentName
         THEN IF data.createData THEN <<Null>> ELSE <<Null, data>>
         ELSE <<ErrorOf(pathName, realName)>>
    ELSE IF data.createData THEN <<Null>> ELSE <<Null, data>>

\* onAfterResolve: the path name handed to checkFile
resolvedPathName(data) == normalizePath(cleanupPath(data.resource))

(***************************************************************************)
(* The requests the host may make: the data of an after-resolve event.     *)
(***************************************************************************)
Data(segs, abs, query, createData) ==
    [createData |-> createData, resource |-> Resource(Path(abs, segs), query)]

\* The builds the model runs: a disk and the modules the host may resolve
\* on it (any of them any number of times, in any order).
Scenarios ==
    { \* exact path, wrong case in the leaf, wrong case in a directory
      [disk |-> Disk(TRUE, {}),
       modules |-> { Data(<<"a", "B", "c", "d">>, TRUE, FALSE, FALSE),
                     Data(<<"a", "B", "c", "D">>, TRUE, FALSE, TRUE),
                     Data(<<"a", "B", "C", "d">>, TRUE, FALSE, FALSE) }],
      \* wrong case and a missing name next to the root, a missing name
      [disk |-> Disk(TRUE, {}),
       modules |-> { Data(<<"a", "b", "c">>, TRUE, FALSE, FALSE),
                     Data(<<"a", "z">>, TRUE, FALSE, FALSE),
                     Data(<<"a", "B", "NUL#x">>, TRUE, TRUE, FALSE) }],
      \* files of the root and of '.', next to a path that is read
      [disk |-> Disk(TRUE, {}),
       modules |-> { Data(<<"x">>, TRUE, FALSE, FALSE),
                     Data(<<"x">>, FALSE, FALSE, TRUE),
                     Data(<<"a", "B", "c", "d">>, TRUE, FALSE, TRUE) }],
      \* a directory that cannot be read, two names that differ in case
      [disk |-> Disk(TRUE, {<<"a", "B", "c">>}),
       modules |-> { Data(<<"a", "B", "c", "d">>, TRUE, FALSE, FALSE),
                     Data(<<"a", "B", "c", "D">>, TRUE, FALSE, FALSE),
                     Data(<<"a", "B", "kk">>, TRUE, FALSE, FALSE) }],
      \* a case-sensitive filesystem
      [disk |-> Disk(FALSE, {}),
       modules |-> { Data(<<"a", "B", "c", "d">>, TRUE, FALSE, TRUE),
                     Data(<<"a", "B", "C", "d">>, TRUE, FALSE, FALSE),
                     Data(<<"a", "b", "c">>, TRUE, FALSE, FALSE) }],
      \* a name the disk stores decomposed, asked for in both forms
      [disk |-> Disk(TRUE, {}),
       modules |-> { Data(<<"a", "B", "c", "e_nfd">>, TRUE, TRUE, TRUE),
                     Data(<<"a", "B", "c", "e_nfc">>, TRUE, FALSE, FALSE),
                     Data(<<"a", "B", "kk">>, TRUE, FALSE, FALSE) }] }

(***************************************************************************)
(* State.                                                                  *)
(*                                                                         *)
(* disk                    the filesystem of this run                      *)
(* modules                 the after-resolve data the host may send        *)
(* pathCache               this.pathCache: directory -> list of names      *)
(* visitedPathMutexRecord  this.visitedPathMutexRecord: directory -> the   *)
(*                         Mutex created for it; a Mutex object is the     *)
(*                         pair <<directory, pass in which it was made>>   *)
(* fsOperations            this.fsOperations                               *)
(* mutexes                 the Mutex objects alive: the callers of         *)
(*                         runExclusive in arrival order (the head holds   *)
(*                         the lock) and whether the head has fs.readdir   *)
(*                         in flight                                       *)
(* pass                    the number of resets so far                     *)
(* readdirCalls            directory -> fs.readdir calls issued for it     *)
(*                         since the last reset                            *)
(* delivered               directory -> the lists getFilenamesInDir has    *)
(*                         passed to callbacks since the last reset        *)
(* hitCache                <<directory, where>>: getFilenamesInDir served  *)
(*                         the directory from the cache since the last     *)
(*                         reset, "direct" on entry or "locked" after      *)
(*                         waiting for the Mutex                           *)
(* completed               the latest call of done by checkFile, if any    *)
(* cachedBeforeReset       the directories cached when reset last ran      *)
(* useBeforeEmitHook       this.options.useBeforeEmitHook                  *)
(* emission                the run of the emit hook of this compilation:   *)
(*                         whether it started, fileDependencies.size, the  *)
(*                         closure's resolvedFilesCount and errors, the    *)
(*                         argument lists its callback was called with,    *)
(*                         what compilation.errors gained, and the value   *)
(*                         each file's verification reported               *)
(***************************************************************************)
VARIABLES disk, modules, pathCache, visitedPathMutexRecord, fsOperations, mutexes,
          pass, readdirCalls, delivered, hitCache, completed,
          cachedBeforeReset, useBeforeEmitHook, emission

vars == <<disk, modules, pathCache, visitedPathMutexRecord, fsOperations, mutexes,
          pass, readdirCalls, delivered, hitCache, completed,
          cachedBeforeReset, useBeforeEmitHook, emission>>

\* new Map()
EmptyMap == [d \in {} |-> {}]

\* Map.prototype.set
MapSet(map, key, value) ==
    [k \in DOMAIN map \cup {key} |-> IF k = key THEN value ELSE map[k]]

RECURSIVE QueuedIn(_, _)
QueuedIn(mtx, M) ==
    IF M = {} THEN 0
    ELSE LET m == CHOOSE x \in M : TRUE
         IN  Len(mtx[m].queue) + QueuedIn(mtx, M \ {m})

\* the verifications whose done has not been called yet
InFlight == QueuedIn(mutexes, DOMAIN mutexes)

\* no emit hook has run in this compilation
NoEmission ==
    [started |-> FALSE, size |-> 0, resolvedFilesCount |-> 0,
     errors |-> << >>, calls |-> << >>, compilationErrors |-> << >>,
     reported |-> {}]

\* mutant: the first error goes to the callback, not to compilation.errors
emitClosureErrorToCallback(em, pathName, realName, args) ==
    LET count == em.resolvedFilesCount + 1
        errors == IF args[1].type = "Error"
                  THEN Append(em.errors, args[1]) ELSE em.errors
        seen == [em EXCEPT !.resolvedFilesCount = count, !.errors = errors,
                           !.reported = @ \cup {<<pathName, realName>>}]
    IN  IF count = em.size
        THEN [seen EXCEPT !.calls = Append(@, IF errors = << >> THEN << >>
                                              ELSE <<errors[1]>>)]
        ELSE seen

\* the callback the emit hook gives to checkFile, called with args: it
\* counts, keeps the error if there is one and, for the last file, appends
\* the errors to compilation.errors and calls the callback of the hook
emitClosure(em, pathName, realName, args) ==
    LET count == em.resolvedFilesCount + 1
        errors == IF args[1].type = "Error"
                  THEN Append(em.errors, args[1]) ELSE em.errors
        seen == [em EXCEPT !.resolvedFilesCount = count, !.errors = errors,
                           !.reported = @ \cup {<<pathName, realName>>}]
    IN  IF count = em.size
        THEN [seen EXCEPT !.compilationErrors = @ \o errors,
                          !.calls = Append(@, << >>)]
        ELSE seen

\* constructor: new Map() for both maps, then reset(); the option is the
\* one given to the constructor
Start(option) ==
    /\ \E s \in Scenarios : disk = s.disk /\ modules = s.modules
    /\ useBeforeEmitHook = option
    /\ emission = NoEmission
    /\ pathCache = EmptyMap
    /\ visitedPathMutexRecord = EmptyMap
    /\ fsOperations = 0
    /\ mutexes = EmptyMap
    /\ pass = 0
    /\ readdirCalls = EmptyMap
    /\ delivered = EmptyMap
    /\ hitCache = {}
    /\ completed = << >>
    /\ cachedBeforeReset = {}

\* the plugin taps afterResolve (the default)
Init == Start(FALSE)

\* the plugin taps emit
InitEmit == Start(TRUE)

\* the callback of getFilenamesInDir is called with filenames for dir
Deliver(dlv, dir, filenames) ==
    MapSet(dlv, dir, (IF dir \in DOMAIN dlv THEN dlv[dir] ELSE {}) \cup {filenames})

\* mutant: the holder never calls done(), the Mutex stays locked
ReleaseForgotten(m) == mutexes

\* the Mutex m is released by its holder; a Mutex that reset() dropped from
\* the record and that nobody waits on any more is garbage
Release(m) ==
    LET rest == Tail(mutexes[m].queue)
        live == m[1] \in DOMAIN visitedPathMutexRecord
                /\ visitedPathMutexRecord[m[1]] = m[2]
    IN  IF rest = << >> /\ ~live
        THEN [x \in DOMAIN mutexes \ {m} |-> mutexes[x]]
        ELSE [mutexes EXCEPT ![m] = [queue |-> rest, reading |-> FALSE]]

(***************************************************************************)
(* The rest of a callback run once the synchronous walk `o` of the         *)
(* verification (pathName, data) is known: getFilenamesInDir created a     *)
(* Mutex for every directory it was asked for that had none, served the    *)
(* cached ones, and either checkFile called done or the verification       *)
(* queued on the Mutex of the directory that is not cached.                *)
(***************************************************************************)
Continued(st, pathName, data, o, cache) ==
    LET askedSet == {o.asked[i] : i \in 1..Len(o.asked)}
        fresh == askedSet \ DOMAIN st.record
        record == [d \in DOMAIN st.record \cup fresh |->
                      IF d \in fresh THEN pass ELSE st.record[d]]
        made == {<<d, pass>> : d \in fresh}
        all == [m \in DOMAIN st.mutexes \cup made |->
                   IF m \in DOMAIN st.mutexes THEN st.mutexes[m]
                   ELSE [queue |-> << >>, reading |-> FALSE]]
        hits == IF o.settled THEN askedSet ELSE askedSet \ {dirname(o.at)}
        target == <<dirname(o.at), record[dirname(o.at)]>>
        waiter == [pathName |-> pathName, data |-> data, filepath |-> o.at]
        args == checkFile(pathName, data, o.realName)
    IN  [record |-> record,
         mutexes |-> IF o.settled THEN all
                     ELSE [all EXCEPT ![target].queue = Append(@, waiter)],
         delivered |-> [d \in DOMAIN st.delivered \cup hits |->
                           (IF d \in DOMAIN st.delivered
                            THEN st.delivered[d] ELSE {})
                           \cup (IF d \in hits
                                 THEN {cacheGet(cache, d)} ELSE {})],
         hitCache |-> st.hitCache \cup {<<d, "direct">> : d \in hits},
         completed |-> IF o.settled
                       THEN <<[pathName |-> pathName, data |-> data,
                               realName |-> o.realName, done |-> args]>>
                       ELSE st.completed,
         emission |-> IF o.settled /\ useBeforeEmitHook
                      THEN emitClosure(st.emission, pathName, o.realName, args)
                      ELSE st.emission]

\* the variables a verification touches take the values of st
Becomes(st) ==
    /\ visitedPathMutexRecord' = st.record
    /\ mutexes' = st.mutexes
    /\ delivered' = st.delivered
    /\ hitCache' = st.hitCache
    /\ completed' = st.completed
    /\ emission' = st.emission

Continue(pathName, data, o, cache, mtx, dlv, hit) ==
    \E now \in {[record |-> visitedPathMutexRecord, mutexes |-> mtx,
                  delivered |-> dlv, hitCache |-> hitCache \cup hit,
                  completed |-> completed, emission |-> emission]} :
    \E st \in {Continued(now, pathName, data, o, cache)} :
        Becomes(st)

(***************************************************************************)
(* Actions.                                                                *)
(***************************************************************************)

\* nmf.hooks.afterResolve fires with data: onAfterResolve, checkFile and the
\* synchronous part of fileExistsWithCase
onAfterResolve(data) ==
    /\ InFlight < MaxInFlight
    /\ LET pathName == resolvedPathName(data)
       IN  Continue(pathName, data, fileExistsWithCase(pathName, pathCache),
                    pathCache, mutexes, delivered, {})
    /\ UNCHANGED <<disk, modules, pathCache, fsOperations, pass, readdirCalls,
                   cachedBeforeReset, useBeforeEmitHook>>

\* the function given to runExclusive runs for the holder of Mutex m: either
\* the cache was filled while it queued, or it counts and issues fs.readdir
runExclusive(m) ==
    /\ m \in DOMAIN mutexes
    /\ mutexes[m].queue # << >>
    /\ ~mutexes[m].reading
    /\ LET w == Head(mutexes[m].queue)
           dir == m[1]
       IN  IF hasEntryLocked(pathCache, dir)
           THEN /\ \E filenames \in {cacheGet(pathCache, dir)} :
                   \E o \in {onFilenames(w.filepath, filenames, pathCache)} :
                       Continue(w.pathName, w.data, o,
                                pathCache, Release(m),
                                Deliver(delivered, dir, filenames),
                                {<<dir, "locked">>})
                /\ UNCHANGED <<pathCache, fsOperations, readdirCalls>>
           ELSE /\ fsOperations' = fsOperations + 1
                /\ readdirCalls' =
                       MapSet(readdirCalls, dir,
                              (IF dir \in DOMAIN readdirCalls
                               THEN readdirCalls[dir] ELSE 0) + 1)
                /\ mutexes' = [mutexes EXCEPT ![m].reading = TRUE]
                /\ UNCHANGED <<pathCache, visitedPathMutexRecord, delivered,
                               hitCache, completed, emission>>
    /\ UNCHANGED <<disk, modules, pass, cachedBeforeReset, useBeforeEmitHook>>

\* mutant: the names are stored as read, without normalize('NFC')
listedAsRead(r) == IF r.err THEN << >> ELSE r.files

\* the list the callback of fs.readdir makes of (err, files): [] on an
\* error, else files.map(f => f.normalize('NFC'))
listed(r) ==
    IF r.err THEN << >>
    ELSE [i \in 1..Len(r.files) |-> normalizeNFC(r.files[i])]

\* mutant: the entry is stored under the parent of the directory read
cacheAfterReadUnderParent(cache, dir, r) ==
    MapSet(cache, dirname(dir), listed(r))

\* mutant: a failed read is not cached
cacheAfterReadUnlessError(cache, dir, r) ==
    IF r.err THEN cache ELSE MapSet(cache, dir, listed(r))

\* that.pathCache.set(dir, ...) in the callback of fs.readdir, both branches
cacheAfterRead(cache, dir, r) == MapSet(cache, dir, listed(r))

\* mutant: the callback gets the names as read, not as stored
passedOnAsRead(r) == IF r.err THEN << >> ELSE r.files

\* callback(...) in the callback of fs.readdir, both branches
passedOn(r) == listed(r)

\* the callback of the fs.readdir issued by the holder of Mutex m
readdirCallback(m) ==
    /\ m \in DOMAIN mutexes
    /\ mutexes[m].reading
    /\ LET w == Head(mutexes[m].queue)
           dir == m[1]
       IN  \E r \in {readdir(disk, dir)} :
           \E fileNames \in {passedOn(r)} :
           \E cache \in {cacheAfterRead(pathCache, dir, r)} :
           \E o \in {onFilenames(w.filepath, fileNames, cache)} :
           /\ pathCache' = cache
           /\ Continue(w.pathName, w.data, o,
                       cache, Release(m), Deliver(delivered, dir, fileNames),
                       {})
    /\ UNCHANGED <<disk, modules, fsOperations, pass, readdirCalls,
                   cachedBeforeReset, useBeforeEmitHook>>

\* mutant: reset() keeps the cache
resetKeepingCache ==
    /\ pathCache' = pathCache
    /\ visitedPathMutexRecord' = EmptyMap
    /\ fsOperations' = 0

\* mutant: reset() keeps the counter
resetKeepingCounter ==
    /\ pathCache' = EmptyMap
    /\ visitedPathMutexRecord' = EmptyMap
    /\ fsOperations' = fsOperations

\* reset(), called by the constructor and by onDone
reset ==
    /\ pathCache' = EmptyMap
    /\ visitedPathMutexRecord' = EmptyMap
    /\ fsOperations' = 0

\* compiler.hooks.done fires: onDone
onDone ==
    /\ pass < MaxPass
    /\ reset
    /\ pass' = pass + 1
    /\ mutexes' = [m \in {x \in DOMAIN mutexes : mutexes[x].queue # << >>} |->
                      mutexes[m]]
    /\ readdirCalls' = EmptyMap
    /\ delivered' = EmptyMap
    /\ hitCache' = {}
    /\ cachedBeforeReset' = DOMAIN pathCache
    /\ emission' = NoEmission
    /\ UNCHANGED <<disk, modules, completed, useBeforeEmitHook>>

\* the host fires done once every module of the pass is built, that is
\* after every after-resolve callback of the pass has been called
hostSettled == InFlight = 0

Next ==
    \/ \E data \in modules : onAfterResolve(data)
    \/ \E m \in DOMAIN mutexes : runExclusive(m)
    \/ \E m \in DOMAIN mutexes : readdirCallback(m)
    \/ hostSettled /\ onDone

Spec == Init /\ [][Next]_vars

\* the done hook firing at any moment, also with verifications outstanding
NextAnyDone ==
    \/ \E data \in modules : onAfterResolve(data)
    \/ \E m \in DOMAIN mutexes : runExclusive(m)
    \/ \E m \in DOMAIN mutexes : readdirCallback(m)
    \/ onDone

SpecAnyDone == Init /\ [][NextAnyDone]_vars

\* a file dependency: the string is path name and data of checkFile, and
\* has no createData
Filename(path) == [createData |-> FALSE, resource |-> Resource(path, FALSE)]

\* the orders in which forEach can visit the Set files
Orders(files) ==
    {s \in [1..Cardinality(files) -> files] :
        \A i, j \in DOMAIN s : s[i] = s[j] => i = j}

\* compilation.fileDependencies.forEach(filename => checkFile(filename,
\* filename, ...)): the synchronous part of every verification, in order
RECURSIVE forEachFile(_, _, _)
forEachFile(order, st, cache) ==
    IF order = << >> THEN st
    ELSE forEachFile(Tail(order),
                     Continued(st, Head(order), Filename(Head(order)),
                               fileExistsWithCase(Head(order), cache), cache),
                     cache)

\* compiler.hooks.emit fires for a compilation with fileDependencies files
onEmit(files) ==
    /\ useBeforeEmitHook
    /\ ~emission.started
    /\ Cardinality(files) <= MaxInFlight
    /\ \E order \in Orders(files) :
       \E st \in {forEachFile(order,
                       [record |-> visitedPathMutexRecord, mutexes |-> mutexes,
                        delivered |-> delivered, hitCache |-> hitCache,
                        completed |-> completed,
                        emission |-> [NoEmission EXCEPT
                                         !.started = TRUE,
                                         !.size = Cardinality(files)]],
                       pathCache)} :
           Becomes(st)
    /\ UNCHANGED <<disk, modules, pathCache, fsOperations, pass, readdirCalls,
                   cachedBeforeReset, useBeforeEmitHook>>

\* the host goes on to done once the callback of the emit hook was called
emitSettled == emission.calls # << >>

NextEmit ==
    \/ \E files \in SUBSET {data.resource.path : data \in modules} :
           onEmit(files)
    \/ \E m \in DOMAIN mutexes : runExclusive(m)
    \/ \E m \in DOMAIN mutexes : readdirCallback(m)
    \/ emitSettled /\ onDone

SpecEmit == InitEmit /\ [][NextEmit]_vars

\* The event loop runs a callback that is ready: the function given to
\* runExclusive once its caller holds the Mutex, and the callback of an
\* fs.readdir that was issued (the operating system answers every read).
EventLoop ==
    /\ WF_vars(\E m \in DOMAIN mutexes : runExclusive(m))
    /\ WF_vars(\E m \in DOMAIN mutexes : readdirCallback(m))

SpecFair == Init /\ [][Next]_vars /\ EventLoop

(***************************************************************************)
(* Properties.                                                             *)
(***************************************************************************)
\* fs.readdir calls issued for d since the last reset
Reads(d) == IF d \in DOMAIN readdirCalls THEN readdirCalls[d] ELSE 0

\* the lists passed to callers of getFilenamesInDir(d) since the last reset
Delivered(d) == IF d \in DOMAIN delivered THEN delivered[d] ELSE {}

\* an fs.readdir(d) has been issued and has not called back
ReadInFlight(d) ==
    \E m \in DOMAIN mutexes : m[1] = d /\ mutexes[m].reading

\* somebody waits for (or holds) the Mutex of d
Queued(d) ==
    \E m \in DOMAIN mutexes : m[1] = d /\ mutexes[m].queue # << >>

Contains(names, n) == \E i \in DOMAIN names : names[i] = n

ContainsIgnoringCase(names, n) ==
    \E i \in DOMAIN names : toLowerCase(names[i]) = toLowerCase(n)

\* the names the disk lists for the parent of segment k of path p
ListingAbove(p, k) ==
    listed(readdir(disk, Path(p.abs, SubSeq(p.segs, 1, k - 1))))

\* done called with no error, passing data on as checkFile must
PassedOn(data) == IF data.createData THEN <<Null>> ELSE <<Null, data>>

\* a value that is a name between backquotes
IsMismatch(v) == v.defined /\ Len(v.text) = 3 /\ v.text[1] = "bq"

\* C1: within a build pass fs.readdir is issued at most once for a
\* directory, however many callers ask for it before its entry is written,
\* and exactly once by the time the entry is written or a read is in flight.
C1_SingleRead ==
    \A d \in DOMAIN readdirCalls \cup DOMAIN pathCache :
        /\ Reads(d) <= 1
        /\ (d \in DOMAIN pathCache \/ ReadInFlight(d)) => Reads(d) = 1

\* a caller that asked before the entry was written still waits for the
\* Mutex, the entry is written, and one read was issued
C1_Witness ==
    \E d \in DOMAIN pathCache : Queued(d) /\ Reads(d) = 1

\* C2: once a directory has a cache entry, no step of the same pass changes
\* or removes the entry or issues fs.readdir for it, and every list passed
\* to a caller from then on is the entry.
C2_IdempotentCache ==
    [][pass' = pass =>
        \A d \in DOMAIN pathCache :
            /\ d \in DOMAIN pathCache'
            /\ pathCache'[d] = pathCache[d]
            /\ Reads(d)' = Reads(d)
            /\ Delivered(d)' \subseteq Delivered(d) \cup {pathCache[d]}]_vars

\* a call that found the entry on entry was served a non-empty list
C2_Witness ==
    \E d \in DOMAIN pathCache :
        /\ <<d, "direct">> \in hitCache
        /\ pathCache[d] # << >>
        /\ Delivered(d) = {pathCache[d]}
        /\ Reads(d) = 1

\* C3 (the claim as stated, on a case-insensitive disk without read
\* errors): a verification of a path with a segment, below a directory that
\* is not the root, that differs only in case from a name its parent lists
\* reports that name between backquotes.
C3_MismatchAtAnyDepth ==
    (completed # << >> /\ disk.ci /\ disk.unreadable = {}) =>
        LET c == completed[1]
            p == c.pathName
            K == {k \in 2..Len(p.segs) :
                     /\ ~Contains(ListingAbove(p, k), p.segs[k])
                     /\ ContainsIgnoringCase(ListingAbove(p, k), p.segs[k])}
        IN  K # {} =>
                \E k \in K :
                    c.realName = correctFilename(ListingAbove(p, k), p.segs[k])

\* C4: a verification of a path whose every segment is listed verbatim by
\* the directory above it calls back with no value.
C4_ExactMatchConfirmed ==
    completed # << >> =>
        LET c == completed[1]
            p == c.pathName
        IN  (/\ p.segs # << >>
             /\ \A k \in 1..Len(p.segs) :
                    Contains(ListingAbove(p, k), p.segs[k]))
            => c.realName = Undefined

\* a path of four segments, all listed verbatim, was confirmed after reads
C4_Witness ==
    /\ completed # << >>
    /\ Len(completed[1].pathName.segs) = 4
    /\ \A k \in 1..4 :
           Contains(ListingAbove(completed[1].pathName, k),
                    completed[1].pathName.segs[k])
    /\ completed[1].realName = Undefined
    /\ fsOperations = 2

\* C5 (the claim as stated, for a path whose directory is neither the root
\* nor '.'): when the listing of the directory of the path has no name equal
\* to the basename, exactly or ignoring case, the verification reports
\* '!nonexistent', which is no mismatch.
C5_NonexistentNotMismatch ==
    completed # << >> =>
        LET c == completed[1]
            p == c.pathName
            n == Len(p.segs)
        IN  /\ (/\ n >= 2
                /\ ~Contains(ListingAbove(p, n), p.segs[n])
                /\ ~ContainsIgnoringCase(ListingAbove(p, n), p.segs[n]))
               => c.realName = NonexistentName
            /\ ~(c.realName = NonexistentName /\ IsMismatch(c.realName))

\* C6: checkFile calls done with an Error naming the path and the name on
\* disk exactly when fileExistsWithCase reported a mismatch; otherwise it
\* calls done(null, data), or done(null) when data.createData is present.
C6_ErrorIffMismatch ==
    completed # << >> =>
        LET c == completed[1]
        IN  IF IsMismatch(c.realName)
            THEN c.done = <<[type |-> "Error", pathName |-> c.pathName,
                             onDisk |-> c.realName.text]>>
            ELSE c.done = PassedOn(c.data)

\* a mismatch was reported and done got the Error
C6_Witness ==
    /\ completed # << >>
    /\ IsMismatch(completed[1].realName)
    /\ Len(completed[1].done) = 1
    /\ completed[1].done[1].type = "Error"

\* C7: the done hook leaves fsOperations at 0 and both maps empty, and
\* afterwards nobody is served a directory that was cached before the reset
\* without a fresh fs.readdir for it.
C7_ResetClearsState ==
    /\ [][pass' # pass =>
            /\ fsOperations' = 0
            /\ pathCache' = EmptyMap
            /\ visitedPathMutexRecord' = EmptyMap]_vars
    /\ [](\A d \in cachedBeforeReset :
            (Delivered(d) # {} \/ d \in DOMAIN pathCache) =>
                (Reads(d) = 1 /\ fsOperations >= 1))

\* a directory cached before the reset was read again after it
C7_Witness ==
    /\ pass = 1
    /\ \E d \in cachedBeforeReset :
           /\ Reads(d) = 1
           /\ d \in DOMAIN pathCache
           /\ Delivered(d) # {}

\* C8: once a failing fs.readdir(d) has called back, d's entry is the empty
\* list, the empty list is all that callers were passed, the read was not
\* issued again, and a verification whose basename is looked up in d
\* reports '!nonexistent' and completes without an error.
C8_ReadFailureCachedEmpty ==
    /\ \A d \in DOMAIN readdirCalls :
           (readdir(disk, d).err /\ ~ReadInFlight(d)) =>
               /\ d \in DOMAIN pathCache
               /\ pathCache[d] = << >>
               /\ Delivered(d) = {<< >>}
               /\ Reads(d) = 1
    /\ completed # << >> =>
           LET c == completed[1]
               d == dirname(c.pathName)
           IN  (d \in DOMAIN pathCache /\ readdir(disk, d).err) =>
                   /\ c.realName = NonexistentName
                   /\ c.done = PassedOn(c.data)

\* a failed read was served again from the cache and the verification
\* looking into it reported '!nonexistent'
C8_Witness ==
    /\ completed # << >>
    /\ completed[1].realName = NonexistentName
    /\ LET d == dirname(completed[1].pathName)
       IN  /\ readdir(disk, d).err
           /\ d \in DOMAIN pathCache
           /\ <<d, "direct">> \in hitCache
           /\ Reads(d) = 1

\* C9: all callers of getFilenamesInDir(d) of a pass are passed the same
\* list.
C9_SameListForAll ==
    \A d \in DOMAIN delivered : Cardinality(delivered[d]) <= 1

\* the reader, a waiter on the Mutex and a later caller were all served
C9_Witness ==
    \E d \in DOMAIN pathCache :
        /\ <<d, "locked">> \in hitCache
        /\ <<d, "direct">> \in hitCache
        /\ Reads(d) = 1
        /\ Cardinality(Delivered(d)) = 1
        /\ pathCache[d] # << >>

\* C10: the after-resolve event of a path whose directory is the root or
\* '.' completes at once with no value from fileExistsWithCase, and changes
\* neither the cache, nor the counter, nor the Mutexes, nor the reads issued.
C10_RootTermination ==
    [][\A data \in modules :
          (/\ dirname(resolvedPathName(data)).segs = << >>
           /\ onAfterResolve(data))
          => /\ completed' = <<[pathName |-> resolvedPathName(data),
                                data |-> data,
                                realName |-> Undefined,
                                done |-> PassedOn(data)]>>
             /\ UNCHANGED <<pathCache, fsOperations, readdirCalls, mutexes,
                            visitedPathMutexRecord>>]_vars

\* a file of the root was confirmed while another directory's read is in
\* flight and nothing is cached
C10_Witness ==
    /\ completed # << >>
    /\ dirname(completed[1].pathName) = Path(TRUE, << >>)
    /\ completed[1].realName = Undefined
    /\ fsOperations = 1
    /\ pathCache = EmptyMap
    /\ \E m \in DOMAIN mutexes : mutexes[m].reading

\* the names fs.readdir reports, as read, for the parent of segment k of p
FilesAbove(p, k) ==
    readdir(disk, Path(p.abs, SubSeq(p.segs, 1, k - 1))).files

\* some name the disk reports above segment k of p has the NFC form of it
ListedUpToForm(p, k) ==
    \E i \in DOMAIN FilesAbove(p, k) :
        normalizeNFC(FilesAbove(p, k)[i]) = normalizeNFC(p.segs[k])

\* C11: a verification of a requested path whose every segment has the same
\* NFC form as a name the disk reports in the directory above it calls back
\* with no value: a difference in composition form alone is no mismatch.
C11_CompositionFormMatches ==
    completed # << >> =>
        LET c == completed[1]
            q == cleanupPath(c.data.resource)
        IN  (/\ q.segs # << >>
             /\ \A k \in 1..Len(q.segs) : ListedUpToForm(q, k))
            => (c.realName = Undefined /\ ~IsMismatch(c.realName))

\* the precomposed name was asked for, the disk reports only the decomposed
\* one, the directory was read and the path was confirmed
C11_Witness ==
    /\ completed # << >>
    /\ LET q == cleanupPath(completed[1].data.resource)
       IN  /\ Len(q.segs) = 4
           /\ q.segs[4] = "e_nfc"
           /\ ~Contains(FilesAbove(q, 4), "e_nfc")
           /\ Contains(FilesAbove(q, 4), "e_nfd")
           /\ dirname(q) \in DOMAIN pathCache
    /\ completed[1].realName = Undefined

\* the Mutex the record holds for d
GuardOf(d) == <<d, visitedPathMutexRecord[d]>>

\* C12: a step that writes or changes the cache entry of d is made by the
\* holder of the Mutex the record holds for d, whose read is in flight; no
\* two fs.readdir(d) are in flight at once.
C12_WritesUnderGuard ==
    /\ [][pass' = pass =>
            \A d \in DOMAIN pathCache' :
                (d \notin DOMAIN pathCache \/ pathCache'[d] # pathCache[d]) =>
                    /\ d \in DOMAIN visitedPathMutexRecord
                    /\ GuardOf(d) \in DOMAIN mutexes
                    /\ mutexes[GuardOf(d)].reading]_vars
    /\ [](\A m1, m2 \in DOMAIN mutexes :
            (m1[1] = m2[1] /\ mutexes[m1].reading /\ mutexes[m2].reading)
                => m1 = m2)

\* an entry was read by a caller on entry while another caller held the
\* Mutex of that directory
C12_Witness ==
    \E d \in DOMAIN pathCache :
        /\ Queued(d)
        /\ <<d, "direct">> \in hitCache
        /\ Reads(d) = 1

RECURSIVE SumReads(_)
SumReads(D) ==
    IF D = {} THEN 0
    ELSE LET d == CHOOSE x \in D : TRUE
         IN  readdirCalls[d] + SumReads(D \ {d})

\* fs.readdir calls issued since the last reset
ReadsIssued == SumReads(DOMAIN readdirCalls)

\* C14: fsOperations is the number of fs.readdir calls issued since the last
\* reset; within a pass a step adds one to it when it issues a read and
\* nothing otherwise, in particular when it serves a caller from the cache.
C14_CounterCountsReads ==
    /\ [](fsOperations = ReadsIssued)
    /\ [][pass' = pass =>
            /\ fsOperations' >= fsOperations
            /\ fsOperations' - fsOperations = ReadsIssued' - ReadsIssued
            /\ fsOperations' - fsOperations <= 1
            /\ hitCache' # hitCache => fsOperations' = fsOperations]_vars

\* after a reset two reads were counted and callers were served from the
\* cache both ways
C14_Witness ==
    /\ pass = 1
    /\ fsOperations = 2
    /\ \E d \in DOMAIN pathCache :
           <<d, "direct">> \in hitCache /\ <<d, "locked">> \in hitCache

\* C19: when the directory of the path is listed, the basename is not in the
\* list and several names equal it ignoring case, the name reported is the
\* one none of the others precedes.
C19_FirstMatchWins ==
    completed # << >> =>
        LET c == completed[1]
            p == c.pathName
            n == Len(p.segs)
            L == IF n = 0 THEN << >> ELSE ListingAbove(p, n)
            I == {i \in DOMAIN L : toLowerCase(L[i]) = toLowerCase(p.segs[n])}
        IN  (/\ n >= 3
             /\ ~Contains(L, p.segs[n])
             /\ Cardinality(I) >= 2)
            => \E i \in I : /\ \A j \in I : j >= i
                            /\ c.realName = QuotedName(L[i])

\* kk was asked for where the directory lists Kk before kK
C19_Witness ==
    /\ completed # << >>
    /\ basename(completed[1].pathName) = "kk"
    /\ dirname(completed[1].pathName) \in DOMAIN pathCache
    /\ pathCache[dirname(completed[1].pathName)] = <<"c", "Kk", "kK">>
    /\ completed[1].realName = QuotedName("Kk")

\* the segment of p directly below its ancestor directory d
SegBelow(p, d) == p.segs[Len(d.segs) + 1]

\* d is listed in cache and the list holds the segment of p below d verbatim
MatchedIn(cache, p, d) ==
    /\ d \in DOMAIN cache
    /\ Contains(cache[d], SegBelow(p, d))

\* asked starts at the parent of p and goes up one directory at a time
LeafToRoot(p, asked) ==
    asked # << >> =>
        /\ asked[1] = dirname(p)
        /\ \A i \in 1..(Len(asked) - 1) : asked[i + 1] = dirname(asked[i])

\* r is what a list L that does not hold n verbatim makes of n
OutcomeOf(r, L, n) ==
    IF ContainsIgnoringCase(L, n)
    THEN /\ IsMismatch(r)
         /\ Contains(L, r.text[2])
         /\ toLowerCase(r.text[2]) = toLowerCase(n)
    ELSE r = NonexistentName

\* the segments of p whose parent directory the walk lists
Walked(p) ==
    {k \in 1..Len(p.segs) : ~atRoot(Path(p.abs, SubSeq(p.segs, 1, k - 1)))}

\* C16: a verification asks for the parent of the leaf first and then for
\* one directory up at a time; every directory but the last it asks for
\* holds the segment below it verbatim; a verification waiting for a
\* directory has had every segment below matched; the value reported is the
\* outcome of the first segment, from the leaf, that its list does not hold.
C16_LeafToRootUntilMiss ==
    /\ \A data \in modules :
         LET p == resolvedPathName(data)
             o == fileExistsWithCase(p, pathCache)
             n == Len(o.asked)
         IN  /\ LeafToRoot(p, o.asked)
             /\ \A i \in 1..(n - 1) : MatchedIn(pathCache, p, o.asked[i])
             /\ (o.settled /\ o.realName # Undefined) =>
                    /\ n >= 1
                    /\ ~MatchedIn(pathCache, p, o.asked[n])
                    /\ OutcomeOf(o.realName, pathCache[o.asked[n]],
                                 SegBelow(p, o.asked[n]))
             /\ ~o.settled => o.asked[n] \notin DOMAIN pathCache
    /\ \A m \in DOMAIN mutexes : \A i \in DOMAIN mutexes[m].queue :
         LET w == mutexes[m].queue[i]
             f == Len(w.filepath.segs)
         IN  /\ w.filepath = Path(w.pathName.abs, SubSeq(w.pathName.segs, 1, f))
             /\ m[1] = dirname(w.filepath)
             /\ \A k \in (f + 1)..Len(w.pathName.segs) :
                    MatchedIn(pathCache, w.pathName,
                              Path(w.pathName.abs, SubSeq(w.pathName.segs, 1, k - 1)))
    /\ completed # << >> =>
         LET c == completed[1]
             p == c.pathName
             Miss == {k \in Walked(p) : ~Contains(ListingAbove(p, k), p.segs[k])}
         IN  IF Miss = {} THEN c.realName = Undefined
             ELSE LET k == CHOOSE x \in Miss : \A y \in Miss : x >= y
                  IN  OutcomeOf(c.realName, ListingAbove(p, k), p.segs[k])

\* a verification went up from the parent of its leaf to a second directory
\* and reported the mismatch it found there, while another one waits higher
\* up than its leaf
C16_Witness ==
    /\ completed # << >>
    /\ LET c == completed[1]
       IN  /\ Len(c.pathName.segs) = 4
           /\ Contains(ListingAbove(c.pathName, 4), c.pathName.segs[4])
           /\ ~Contains(ListingAbove(c.pathName, 3), c.pathName.segs[3])
           /\ IsMismatch(c.realName)
           /\ c.realName = QuotedName("c")
    /\ \E m \in DOMAIN mutexes : \E i \in DOMAIN mutexes[m].queue :
           mutexes[m].queue[i].filepath # mutexes[m].queue[i].pathName

\* C13: once reset() has run, every directory the cache holds was read by
\* an fs.readdir issued since that reset, and fsOperations is the number of
\* those reads, also when done fired while a read was in flight.
C13_NoListingAcrossReset ==
    pass >= 1 =>
        /\ \A d \in DOMAIN pathCache : Reads(d) >= 1
        /\ fsOperations = ReadsIssued

\* Confirmed, Nonexistent or Mismatch(name)
IsVerdict(r) == r = Undefined \/ r = NonexistentName \/ IsMismatch(r)

\* C15: with the event loop running every ready callback, whenever
\* verifications are outstanding there comes a moment when none is, so that
\* every one of them was called back and no caller is left waiting for a
\* Mutex; a step that ends an outstanding verification ends exactly one, by
\* one call of done for the holder of a Mutex with one of the three verdicts.
C15_EveryVerifyCallsBack ==
    /\ (InFlight > 0) ~> (InFlight = 0)
    /\ [][InFlight' < InFlight =>
            /\ InFlight' = InFlight - 1
            /\ completed' # << >>
            /\ IsVerdict(completed'[1].realName)
            /\ \E m \in DOMAIN mutexes :
                   /\ mutexes[m].queue # << >>
                   /\ Head(mutexes[m].queue).pathName = completed'[1].pathName
                   /\ Head(mutexes[m].queue).data = completed'[1].data]_vars

\* a verification that waited behind another one on the Mutex of a directory
\* has been called back, and nobody waits any more
C15_Witness ==
    /\ completed # << >>
    /\ IsMismatch(completed[1].realName)
    /\ \E d \in DOMAIN pathCache : <<d, "locked">> \in hitCache
    /\ InFlight = 0

\* C17: once the emit hook has run, its callback has been called at most
\* once, only with every file counted and no verification outstanding,
\* and it has been called whenever no verification is outstanding, also for
\* a compilation without file dependencies.
C17_EmitCallsBackOnce ==
    emission.started =>
        /\ Len(emission.calls) <= 1
        /\ Len(emission.calls) = 1 =>
               /\ emission.resolvedFilesCount = emission.size
               /\ InFlight = 0
        /\ InFlight = 0 => Len(emission.calls) = 1

\* the errors compilation.errors gained
ErrorsGained ==
    {emission.compilationErrors[i] : i \in DOMAIN emission.compilationErrors}

\* the files whose verification reported a name between backquotes
ReportedMismatch == {v \in emission.reported : IsMismatch(v[2])}

\* C18: when the callback of the emit hook has been called, it was called
\* with no argument, every file has reported, and compilation.errors gained
\* one error for each file that reported a mismatch and nothing else.
C18_EmitErrorsAreMismatches ==
    emission.calls # << >> =>
        /\ \A i \in DOMAIN emission.calls : emission.calls[i] = << >>
        /\ Cardinality(emission.reported) = emission.size
        /\ Len(emission.compilationErrors) = Cardinality(ReportedMismatch)
        /\ ErrorsGained = {ErrorOf(v[1], v[2]) : v \in ReportedMismatch}

\* two files were verified, one had to wait for a read; one reported a
\* mismatch and the other did not, and the callback was called
C18_Witness ==
    /\ emission.calls = << << >> >>
    /\ emission.size = 2
    /\ Cardinality(ReportedMismatch) = 1
    /\ Len(emission.compilationErrors) = 1
    /\ fsOperations >= 1


=============================================================================
